---- MODULE Spec2Model ----
(***************************************************************************)
(* Model of src/src/lsp/ast.py: the position codec, the PositionIndex, the *)
(* loader and indexer of Root, and Root's two query operations.            *)
(*                                                                         *)
(* Texts are sequences of characters.  A character of a text buffer is a   *)
(* string naming its class ("a" ASCII, "u2"/"u3" a 2-/3-byte character,    *)
(* "u4" a 4-byte character that is a surrogate pair in UTF-16, "LF" the    *)
(* newline): the codec reads of a character only its two encoded lengths.  *)
(***************************************************************************)
EXTENDS Integers, Sequences, FiniteSets, TLC

VARIABLES
    content,          \* codec: the text buffer handed to the two conversions
    codec,            \* codec: the last conversion applied, its arguments and result
    file_nodes,       \* PositionIndex.file_nodes: file id -> list of entries
    node_by_id,       \* PositionIndex.node_by_id: node id -> entry
    file_id_to_path,  \* PositionIndex.file_id_to_path: list of <<file id, path>>, in insertion order
    added,            \* history: the arguments of the add_node calls so far, in call order
    before,           \* history: file_nodes as it was before the last operation
    query,            \* the last operation on the index or the Root, its arguments and its result
    artifact,         \* Root: the parsed artifact JSON given to _initialize
    sources,          \* Root.sources: list of <<filename, list of File>>
    errors,           \* Root.errors
    build_infos,      \* Root.build_infos
    pc,               \* Root: position in __post_init__
    threads           \* Root: per calling thread, the query it is in and its locals

vars == <<content, codec, file_nodes, node_by_id, file_id_to_path, added,
          before, query, artifact, sources, errors, build_infos, pc, threads>>

codecVars == <<content, codec>>
indexVars == <<file_nodes, node_by_id, file_id_to_path, added, before, query>>
rootVars  == <<artifact, sources, errors, build_infos, pc, threads>>

None == [t |-> "None"]

Min(a, b) == IF a <= b THEN a ELSE b
Max(a, b) == IF a >= b THEN a ELSE b

(***************************************************************************)
(* Bounds                                                                  *)
(***************************************************************************)
MaxLen == 3        \* characters in a text buffer
MaxAdds == 2       \* add_node calls made directly on a PositionIndex

(***************************************************************************)
(* Strings                                                                 *)
(***************************************************************************)

\* str.split(sep) for a one-character separator: always at least one piece.
RECURSIVE SplitFrom(_, _, _, _, _)
SplitFrom(s, sep, i, cur, acc) ==
    IF i > Len(s) THEN Append(acc, cur)
    ELSE IF s[i] = sep THEN SplitFrom(s, sep, i + 1, <<>>, Append(acc, cur))
    ELSE SplitFrom(s, sep, i + 1, Append(cur, s[i]), acc)

Split(s, sep) == SplitFrom(s, sep, 1, <<>>, <<>>)

(***************************************************************************)
(* Position codec                                                          *)
(***************************************************************************)

NL == "LF"

\* The character classes of the buffers: ASCII, a 2-byte character, a 3-byte
\* character, a 4-byte character (a surrogate pair in UTF-16), and the newline.
Chars == {"a", "u2", "u3", "u4", NL}

\* char.encode("utf-8"): lead byte L2/L3/L4 and continuation bytes C.
Utf8Bytes(c) ==
    CASE c = "u2"     -> <<"L2", "C">>
      [] c = "u3"     -> <<"L3", "C", "C">>
      [] c = "u4" -> <<"L4", "C", "C", "C">>
      [] OTHER            -> <<c>>

\* len(char.encode("utf-16le")) // 2
Utf16Units(c) == IF c = "u4" THEN 2 ELSE 1

RECURSIVE EncodeUtf8(_)
EncodeUtf8(s) == IF s = <<>> THEN <<>> ELSE Utf8Bytes(Head(s)) \o EncodeUtf8(Tail(s))

RECURSIVE Utf16Len(_)
Utf16Len(s) == IF s = <<>> THEN 0 ELSE Utf16Units(Head(s)) + Utf16Len(Tail(s))

Utf8Len(s) == Len(EncodeUtf8(s))

\* bytes[:k] with Python's slice rules (a negative k counts from the end).
SliceTo(bytes, k) ==
    LET n == Len(bytes)
        e == IF k >= 0 THEN Min(k, n) ELSE Max(0, n + k)
    IN  SubSeq(bytes, 1, e)

SeqLenOfLead(b) == CASE b = "L2" -> 2 [] b = "L3" -> 3 [] b = "L4" -> 4 [] OTHER -> 1

CharOfLead(b) ==
    CASE b = "L2" -> "u2" [] b = "L3" -> "u3" [] b = "L4" -> "u4" [] OTHER -> b

\* bytes.decode("utf-8", errors="ignore"): a byte that does not start a complete
\* sequence (a stray continuation byte, a truncated sequence) is skipped.
RECURSIVE DecodeIgnoreFrom(_, _)
DecodeIgnoreFrom(bytes, i) ==
    IF i > Len(bytes) THEN <<>>
    ELSE LET b == bytes[i]
             k == SeqLenOfLead(b)
             whole == /\ b # "C"
                      /\ i + k - 1 <= Len(bytes)
                      /\ \A j \in (i + 1)..(i + k - 1) : bytes[j] = "C"
         IN  IF whole THEN <<CharOfLead(b)>> \o DecodeIgnoreFrom(bytes, i + k)
             ELSE DecodeIgnoreFrom(bytes, i + 1)

DecodeIgnore(bytes) == DecodeIgnoreFrom(bytes, 1)

\* LineStartBytes with the terminator of each preceding line not counted.
RECURSIVE LineStartBytes_NoTerminator(_, _)
LineStartBytes_NoTerminator(lines, line) ==
    IF line <= 0 THEN 0
    ELSE LineStartBytes_NoTerminator(lines, line - 1)
         + (IF line - 1 < Len(lines) THEN Utf8Len(lines[line]) ELSE 0)

\* Lines 437-440: byte offset of the start of `line` (range(line) is empty for line <= 0).
RECURSIVE LineStartBytes(_, _)
LineStartBytes(lines, line) ==
    IF line <= 0 THEN 0
    ELSE LineStartBytes(lines, line - 1)
         + (IF line - 1 < Len(lines) THEN Utf8Len(lines[line]) + 1 ELSE 0)

\* ScanLine with the column counted in characters, one per character, instead
\* of UTF-16 code units.
RECURSIVE ScanLine_CodePoints(_, _, _, _, _)
ScanLine_CodePoints(target_line, i, utf16_count, byte_offset_in_line, character_utf16) ==
    IF i > Len(target_line) \/ utf16_count >= character_utf16 THEN byte_offset_in_line
    ELSE ScanLine_CodePoints(target_line, i + 1,
                  utf16_count + 1,
                  byte_offset_in_line + Len(Utf8Bytes(target_line[i])),
                  character_utf16)

\* Lines 447-451: scan the target line; returns the bytes consumed.
RECURSIVE ScanLine(_, _, _, _, _)
ScanLine(target_line, i, utf16_count, byte_offset_in_line, character_utf16) ==
    IF i > Len(target_line) \/ utf16_count >= character_utf16 THEN byte_offset_in_line
    ELSE ScanLine(target_line, i + 1,
                  utf16_count + Utf16Units(target_line[i]),
                  byte_offset_in_line + Len(Utf8Bytes(target_line[i])),
                  character_utf16)

\* lines[line] with Python's indexing (a negative index counts from the end).
PyIndex(lines, line) == IF line >= 0 THEN lines[line + 1] ELSE lines[Len(lines) + line + 1]

lsp_position_to_byte_offset(text, line, character_utf16) ==
    LET lines == Split(text, NL) IN
    IF line >= Len(lines) THEN Utf8Len(text)
    ELSE LineStartBytes(lines, line)
         + ScanLine(PyIndex(lines, line), 1, 0, 0, character_utf16)

\* Lines 469-481: find the line containing byte_offset.
RECURSIVE FindLine(_, _, _, _)
FindLine(lines, line_num, current_byte, byte_offset) ==
    IF line_num >= Len(lines) THEN <<Len(lines) - 1, 0>>
    ELSE LET line == lines[line_num + 1]
             line_bytes == Utf8Len(line)
         IN  IF current_byte + line_bytes >= byte_offset
             THEN LET byte_in_line == byte_offset - current_byte
                      line_prefix == DecodeIgnore(SliceTo(EncodeUtf8(line), byte_in_line))
                  IN  <<line_num, Utf16Len(line_prefix)>>
             ELSE FindLine(lines, line_num + 1, current_byte + line_bytes + 1, byte_offset)

byte_offset_to_lsp_position(text, byte_offset) ==
    LET lines == Split(text, NL) IN
    IF byte_offset >= Utf8Len(text)
    THEN <<Len(lines) - 1, Utf16Len(lines[Len(lines)])>>
    ELSE FindLine(lines, 0, 0, byte_offset)

(***************************************************************************)
(* PositionIndex                                                           *)
(*                                                                         *)
(* A Python dict is a function whose DOMAIN is the set of its keys.  A     *)
(* PositionIndex object is the record of its three fields.                 *)
(***************************************************************************)

EmptyDict == [k \in {} |-> None]

\* d[k] = v
Put(d, k, v) == [x \in (DOMAIN d) \cup {k} |-> IF x = k THEN v ELSE d[x]]

\* PositionIndex(): the three default_factory fields.
NewPositionIndex ==
    [file_nodes |-> EmptyDict, node_by_id |-> EmptyDict, file_id_to_path |-> <<>>]

AstNodeIndex(node_id, file_id, start_byte, end_byte, node_type, node_data, depth) ==
    [node_id |-> node_id, file_id |-> file_id, start_byte |-> start_byte,
     end_byte |-> end_byte, node_type |-> node_type, node_data |-> node_data,
     depth |-> depth]

\* add_node that keeps the entry first registered under a node id.
add_node_KeepFirst(pi, node_index) ==
    LET file_id == node_index.file_id
        bucket  == IF file_id \notin DOMAIN pi.file_nodes THEN <<>>
                   ELSE pi.file_nodes[file_id]
    IN  [pi EXCEPT !.file_nodes = Put(pi.file_nodes, file_id, Append(bucket, node_index)),
                   !.node_by_id = IF node_index.node_id \in DOMAIN pi.node_by_id
                                  THEN pi.node_by_id
                                  ELSE Put(pi.node_by_id, node_index.node_id, node_index)]

add_node(pi, node_index) ==
    LET file_id == node_index.file_id
        bucket  == IF file_id \notin DOMAIN pi.file_nodes THEN <<>>
                   ELSE pi.file_nodes[file_id]
    IN  [pi EXCEPT !.file_nodes = Put(pi.file_nodes, file_id, Append(bucket, node_index)),
                   !.node_by_id = Put(pi.node_by_id, node_index.node_id, node_index)]

\* Python's comparison of two tuples of integers of the same length.
RECURSIVE TupleLess(_, _)
TupleLess(a, b) ==
    IF a = <<>> THEN FALSE
    ELSE IF Head(a) # Head(b) THEN Head(a) < Head(b)
    ELSE TupleLess(Tail(a), Tail(b))

\* list.sort(key=...): a stable sort.  `keyed` is the list of <<key, element>>;
\* each element is inserted after the elements already placed whose key is not
\* greater, so elements of equal key keep their order.
RECURSIVE InsertStable(_, _)
InsertStable(sorted, x) ==
    IF sorted = <<>> THEN <<x>>
    ELSE IF TupleLess(x[1], sorted[Len(sorted)][1])
         THEN Append(InsertStable(SubSeq(sorted, 1, Len(sorted) - 1), x),
                     sorted[Len(sorted)])
         ELSE Append(sorted, x)

RECURSIVE StableSortFrom(_, _, _)
StableSortFrom(keyed, i, acc) ==
    IF i > Len(keyed) THEN acc
    ELSE StableSortFrom(keyed, i + 1, InsertStable(acc, keyed[i]))

StableSort(keyed) ==
    LET sorted == StableSortFrom(keyed, 1, <<>>)
    IN  [i \in 1..Len(sorted) |-> sorted[i][2]]

\* StartDepthKey with the depth not negated.
StartDepthKey_Ascending(x) == <<x.start_byte, x.depth>>

\* key=lambda x: (x.start_byte, -x.depth)
StartDepthKey(x) == <<x.start_byte, 0 - x.depth>>

\* key=lambda x: -x.depth
DepthKey(x) == <<0 - x.depth>>

\* self.file_nodes[file_id].sort(key=lambda x: (x.start_byte, -x.depth))
SortBucket(bucket) == StableSort([i \in 1..Len(bucket) |-> <<StartDepthKey(bucket[i]), bucket[i]>>])

\* containing_nodes.sort(key=lambda x: -x.depth)
SortByDepth(nodes) == StableSort([i \in 1..Len(nodes) |-> <<DepthKey(nodes[i]), nodes[i]>>])

finalize_index(pi) ==
    [pi EXCEPT !.file_nodes =
        [file_id \in DOMAIN pi.file_nodes |->
            SortBucket(pi.file_nodes[file_id])]]

\* Containing with the range closed at end_byte.
RECURSIVE Containing_Closed(_, _, _)
Containing_Closed(nodes, i, byte_offset) ==
    IF i > Len(nodes) THEN <<>>
    ELSE (IF nodes[i].start_byte <= byte_offset /\ byte_offset <= nodes[i].end_byte
          THEN <<nodes[i]>> ELSE <<>>)
         \o Containing_Closed(nodes, i + 1, byte_offset)

\* Lines 70-72: the entries of the bucket whose range contains byte_offset, in bucket order.
RECURSIVE Containing(_, _, _)
Containing(nodes, i, byte_offset) ==
    IF i > Len(nodes) THEN <<>>
    ELSE (IF nodes[i].start_byte <= byte_offset /\ byte_offset < nodes[i].end_byte
          THEN <<nodes[i]>> ELSE <<>>)
         \o Containing(nodes, i + 1, byte_offset)

find_nodes_at_position(pi, file_id, byte_offset) ==
    IF file_id \notin DOMAIN pi.file_nodes THEN <<>>
    ELSE SortByDepth(Containing(pi.file_nodes[file_id], 1, byte_offset))

find_innermost_node(pi, file_id, byte_offset) ==
    LET nodes == find_nodes_at_position(pi, file_id, byte_offset)
    IN  IF nodes # <<>> THEN nodes[1] ELSE None

(***************************************************************************)
(* JSON values, as json.load returns them                                  *)
(*                                                                         *)
(* None is Python's None (a JSON null, or what dict.get gives for a key    *)
(* that is absent).  A string value is a sequence of one-character         *)
(* strings.  A dict is the list of its <<key, value>> items in insertion   *)
(* order, with no key twice.                                               *)
(***************************************************************************)

JInt(i) == [t |-> "int", i |-> i]
JStr(s) == [t |-> "str", s |-> s]
JDict(d) == [t |-> "dict", d |-> d]
JList(l) == [t |-> "list", l |-> l]

IsInt(v)  == v.t = "int"
IsStr(v)  == v.t = "str"
IsDict(v) == v.t = "dict"
IsList(v) == v.t = "list"

\* bool(v) for the values the loader and the resolver test; an object of a
\* dataclass or an Enum member is always true.
Truthy(v) ==
    CASE v.t = "None" -> FALSE
      [] v.t = "int"  -> v.i # 0
      [] v.t = "str"  -> v.s # <<>>
      [] v.t = "dict" -> v.d # <<>>
      [] v.t = "list" -> v.l # <<>>
      [] OTHER        -> TRUE

\* key in d
Has(d, key) == \E i \in 1..Len(d.d) : d.d[i][1] = key

\* d.get(key, default)
GetOr(d, key, default) ==
    IF Has(d, key) THEN d.d[CHOOSE i \in 1..Len(d.d) : d.d[i][1] = key][2] ELSE default

\* d.get(key)
Get(d, key) == GetOr(d, key, None)

Digits == {"0", "1", "2", "3", "4", "5", "6", "7", "8", "9"}

DigitVal(c) ==
    CASE c = "0" -> 0 [] c = "1" -> 1 [] c = "2" -> 2 [] c = "3" -> 3 [] c = "4" -> 4
      [] c = "5" -> 5 [] c = "6" -> 6 [] c = "7" -> 7 [] c = "8" -> 8 [] c = "9" -> 9

RECURSIVE DigitsVal(_, _)
DigitsVal(s, acc) == IF s = <<>> THEN acc ELSE DigitsVal(Tail(s), 10 * acc + DigitVal(Head(s)))

\* The blanks int() strips from both ends of a string, of the characters that a
\* string of the model can hold, which are those of the first 256 code points:
\* the space, the tab, the carriage return, the form feed, the newline, the
\* vertical tab (11), the next line (133) and the no-break space (160).  The
\* separators 28 to 31 are str.isspace() characters that int() does not strip.
Whitespace ==
    {" ", "\t", "\r", "\f", NL, "\n",
     "", "", " "}

RECURSIVE LStrip(_)
LStrip(s) == IF s # <<>> /\ Head(s) \in Whitespace THEN LStrip(Tail(s)) ELSE s

RECURSIVE RStrip(_)
RStrip(s) ==
    IF s # <<>> /\ s[Len(s)] \in Whitespace THEN RStrip(SubSeq(s, 1, Len(s) - 1)) ELSE s

\* The body of an integer literal: decimal digits, with single underscores
\* between digits only.
IsDigitGroup(body) ==
    /\ body # <<>>
    /\ body[1] \in Digits /\ body[Len(body)] \in Digits
    /\ \A i \in 1..Len(body) : body[i] \in Digits \cup {"_"}
    /\ \A i \in 1..(Len(body) - 1) : ~(body[i] = "_" /\ body[i + 1] = "_")

\* int(s) of a string: blanks stripped from both ends, then an optional sign and
\* a digit group; anything else is a ValueError (ok = FALSE).  Of the first 256
\* code points only "0" to "9" are decimal digits.
ParseInt(s) ==
    LET stripped == RStrip(LStrip(s))
        signed   == stripped # <<>> /\ stripped[1] \in {"-", "+"}
        body     == IF signed THEN Tail(stripped) ELSE stripped
        digits   == SelectSeq(body, LAMBDA c : c \in Digits)
    IN  IF IsDigitGroup(body)
        THEN [ok |-> TRUE,
              v  |-> IF signed /\ stripped[1] = "-" THEN 0 - DigitsVal(digits, 0)
                     ELSE DigitsVal(digits, 0)]
        ELSE [ok |-> FALSE]

\* parse_src of a string: the tuple (start, length, file_id), or None.
parse_src(src) ==
    LET parts == Split(src, ":") IN
    IF Len(parts) # 3 THEN None
    ELSE LET start   == ParseInt(parts[1])
             length  == ParseInt(parts[2])
             file_id == ParseInt(parts[3])
         IN  IF start.ok /\ length.ok /\ file_id.ok
             THEN [t |-> "tuple", v |-> <<start.v, length.v, file_id.v>>]
             ELSE None

(***************************************************************************)
(* Indexer                                                                 *)
(***************************************************************************)

\* Lines 309-321
ChildListKeys ==
    {"nodes", "body", "statements", "members", "parameters", "declarations",
     "symbolAliases", "arguments", "assignments", "baseContracts", "modifiers"}

\* Lines 325-338
SingleChildKeys ==
    {"expression", "leftExpression", "leftHandSide", "rightExpression",
     "rightHandSide", "value", "typeName", "baseExpression", "parameters",
     "baseName", "parameterTypes", "returnParameterTypes"}

\* Lines 292-305: the entry of a node that has src and id and a well-formed src.
\* The src of a node of the model is a string and its id an integer.
IndexCurrentNode(pi, node, depth) ==
    IF Has(node, "src") /\ Has(node, "id")
    THEN LET src_info == parse_src(Get(node, "src").s) IN
         IF Truthy(src_info)
         THEN add_node(pi, AstNodeIndex(Get(node, "id").i, src_info.v[3], src_info.v[1],
                                        src_info.v[1] + src_info.v[2],
                                        GetOr(node, "nodeType", JStr(<<"Unknown">>)),
                                        node, depth))
         ELSE pi
    ELSE pi

RECURSIVE _index_ast_nodes(_, _, _, _)
RECURSIVE IndexItems(_, _, _, _, _)
RECURSIVE IndexChildren(_, _, _, _, _)

\* The loop over a list that visits each element at the depth of the parent.
RECURSIVE IndexChildren_ParentDepth(_, _, _, _, _)
IndexChildren_ParentDepth(pi, children, i, file_id, depth) ==
    IF i > Len(children) THEN pi
    ELSE IndexChildren_ParentDepth(_index_ast_nodes(pi, children[i], file_id, depth - 1),
                                   children, i + 1, file_id, depth)

\* Lines 323-324: for child in value
IndexChildren(pi, children, i, file_id, depth) ==
    IF i > Len(children) THEN pi
    ELSE IndexChildren(_index_ast_nodes(pi, children[i], file_id, depth),
                       children, i + 1, file_id, depth)

\* Lines 308-342: for key, value in node.items()
IndexItems(pi, items, i, file_id, depth) ==
    IF i > Len(items) THEN pi
    ELSE LET key   == items[i][1]
             value == items[i][2]
             next  ==
                 IF key \in ChildListKeys
                 THEN IF IsList(value)
                      THEN IndexChildren(pi, value.l, 1, file_id, depth + 1)
                      ELSE pi
                 ELSE IF key \in SingleChildKeys
                 THEN IF IsDict(value)
                      THEN _index_ast_nodes(pi, value, file_id, depth + 1)
                      ELSE pi
                 ELSE IF IsDict(value) /\ Has(value, "nodeType")
                 THEN _index_ast_nodes(pi, value, file_id, depth + 1)
                 ELSE pi
         IN  IndexItems(next, items, i + 1, file_id, depth)

_index_ast_nodes(pi, node, file_id, depth) ==
    IF ~IsDict(node) THEN pi
    ELSE IndexItems(IndexCurrentNode(pi, node, depth), node.d, 1, file_id, depth)

(***************************************************************************)
(* Loader                                                                  *)
(***************************************************************************)

SourceFile(id, ast) == [t |-> "SourceFile", id |-> id, ast |-> ast]

File(source_file, version, build_id, profile) ==
    [t |-> "File", source_file |-> source_file, verison |-> version,
     build_id |-> build_id, profile |-> profile]

SourceLocation(file, start, end) ==
    [t |-> "SourceLocation", file |-> file, start |-> start, end |-> end]

Errors(source_location, error_type, error_code, severity, message) ==
    [t |-> "Errors", source_location |-> source_location, error_type |-> error_type,
     error_code |-> error_code, severity |-> severity, message |-> message]

BuildInfo(id, source_id_to_path, language) ==
    [t |-> "BuildInfo", id |-> id, source_id_to_path |-> source_id_to_path,
     language |-> language]

Enum(member) == [t |-> "Enum", member |-> member]

\* Lines 186-198: what one element of a sources list appends to `source`.
LoadFile(file) ==
    LET version  == Get(file, "version")
        build_id == Get(file, "build_id")
        profile  == Get(file, "profile")
        s        == Get(file, "source_file")
    IN  IF Truthy(s)
        THEN LET id  == Get(s, "id")
                 ast == Get(s, "ast")
                 s2  == IF IsInt(id) /\ Truthy(ast) THEN SourceFile(id.i, ast) ELSE s
                 f   == IF Truthy(s2) /\ Truthy(version) /\ Truthy(build_id) /\ Truthy(profile)
                        THEN File(s2, version, build_id, profile)
                        ELSE None
             IN  <<f>>
        ELSE <<>>

RECURSIVE LoadFiles(_, _)
LoadFiles(files, i) ==
    IF i > Len(files) THEN <<>> ELSE LoadFile(files[i]) \o LoadFiles(files, i + 1)

\* The cased characters of the first 256 code points that str.lower() changes,
\* and what it changes each to.
UpperCase ==
    <<"A", "B", "C", "D", "E", "F", "G", "H", "I", "J", "K", "L", "M",
      "N", "O", "P", "Q", "R", "S", "T", "U", "V", "W", "X", "Y", "Z",
      "À", "Á", "Â", "Ã", "Ä", "Å", "Æ", "Ç", "È", "É",
      "Ê", "Ë", "Ì", "Í", "Î", "Ï", "Ð", "Ñ", "Ò", "Ó",
      "Ô", "Õ", "Ö", "Ø", "Ù", "Ú", "Û", "Ü", "Ý", "Þ">>

LowerCase ==
    <<"a", "b", "c", "d", "e", "f", "g", "h", "i", "j", "k", "l", "m",
      "n", "o", "p", "q", "r", "s", "t", "u", "v", "w", "x", "y", "z",
      "à", "á", "â", "ã", "ä", "å", "æ", "ç", "è", "é",
      "ê", "ë", "ì", "í", "î", "ï", "ð", "ñ", "ò", "ó",
      "ô", "õ", "ö", "ø", "ù", "ú", "û", "ü", "ý", "þ">>

LowerChar(c) ==
    IF \E i \in 1..Len(UpperCase) : UpperCase[i] = c
    THEN LowerCase[CHOOSE i \in 1..Len(UpperCase) : UpperCase[i] = c]
    ELSE c

\* str.lower() of a string, character by character.
Lower(s) == [i \in 1..Len(s) |-> LowerChar(s[i])]

\* Lines 222-226 and 231-235: the Enum member of a type or severity string.
EnumOf(v) ==
    IF v = None THEN None
    ELSE IF Lower(v.s) = <<"w", "a", "r", "n", "i", "n", "g">> THEN Enum("WARNING")
    ELSE IF Lower(v.s) = <<"e", "r", "r", "o", "r">> THEN Enum("ERROR")
    ELSE None

\* Lines 203-251: what one element of the errors list appends to self.errors.
LoadError(error) ==
    LET _sourceLocation == Get(error, "sourceLocation")
        _errorCode      == Get(error, "errorCode")
        _message        == Get(error, "message")
        sourceLocation  ==
            IF Truthy(_sourceLocation)
            THEN LET _file  == Get(_sourceLocation, "file")
                     _start == Get(_sourceLocation, "start")
                     _end   == Get(_sourceLocation, "end")
                 IN  IF _file # None /\ _start # None /\ _end # None
                     THEN SourceLocation(_file, _start, _end)
                     ELSE None
            ELSE None
        error_type == EnumOf(Get(error, "type"))
        severity   == EnumOf(Get(error, "severity"))
    IN  IF /\ Truthy(sourceLocation) /\ Truthy(error_type) /\ Truthy(_errorCode)
           /\ Truthy(severity) /\ Truthy(_message)
        THEN <<Errors(sourceLocation, error_type, _errorCode, severity, _message)>>
        ELSE <<>>

\* d[key] = value on the items of a dict whose keys are values: the value of a
\* key already present is replaced where it stands.
PutItem(items, key, value) ==
    IF \E i \in 1..Len(items) : items[i][1] = key
    THEN [i \in 1..Len(items) |-> IF items[i][1] = key THEN <<key, value>> ELSE items[i]]
    ELSE Append(items, <<key, value>>)

\* What dict() takes from one element of a list: the two things iterating it
\* yields.  An integer or None is not iterable (TypeError); a string yields its
\* characters, a list its elements, a dict its keys, and any number of them but
\* two is a ValueError; a list or a dict is no key (unhashable, TypeError).
PairOf(element) ==
    LET yields ==
            CASE IsStr(element)  -> [i \in 1..Len(element.s) |-> JStr(<<element.s[i]>>)]
              [] IsList(element) -> element.l
              [] IsDict(element) -> [i \in 1..Len(element.d) |-> JStr(element.d[i][1])]
              [] OTHER           -> <<>>
    IN  IF ~(IsStr(element) \/ IsList(element) \/ IsDict(element))
        THEN [st |-> "raised", exc |-> "TypeError"]
        ELSE IF Len(yields) # 2 THEN [st |-> "raised", exc |-> "ValueError"]
        ELSE IF IsList(yields[1]) \/ IsDict(yields[1])
        THEN [st |-> "raised", exc |-> "TypeError"]
        ELSE [st |-> "ok", key |-> yields[1], value |-> yields[2]]

\* dict(list), element by element.
RECURSIVE DictOfPairs(_, _, _)
DictOfPairs(list, i, items) ==
    IF i > Len(list) THEN [st |-> "ok", d |-> JDict(items)]
    ELSE LET pair == PairOf(list[i]) IN
         IF pair.st = "raised" THEN pair
         ELSE DictOfPairs(list, i + 1, PutItem(items, pair.key, pair.value))

\* Line 261, dict(_source_map) of a true value: a copy of a dict, its keys the
\* strings they are; the dict of the pairs of a list; a ValueError for a string,
\* whose first character is a string of length 1; a TypeError for an integer.
DictOf(v) ==
    CASE IsDict(v) -> [st |-> "ok",
                       d  |-> JDict([i \in 1..Len(v.d) |-> <<JStr(v.d[i][1]), v.d[i][2]>>])]
      [] IsList(v) -> DictOfPairs(v.l, 1, <<>>)
      [] IsStr(v)  -> [st |-> "raised", exc |-> "ValueError"]
      [] OTHER     -> [st |-> "raised", exc |-> "TypeError"]

\* Lines 254-265: what one element of the build_infos list appends, or the
\* exception of dict() that leaves _initialize.
LoadBuildInfo(info) ==
    LET _id         == Get(info, "id")
        _source_map == Get(info, "source_id_to_path")
        _language   == Get(info, "language")
    IN  IF Truthy(_id) /\ Truthy(_source_map) /\ Truthy(_language)
        THEN LET source_id_to_path == DictOf(_source_map) IN
             IF source_id_to_path.st = "ok"
             THEN [st |-> "ok", infos |-> <<BuildInfo(_id, source_id_to_path.d, _language)>>]
             ELSE [st |-> "raised", exc |-> source_id_to_path.exc, infos |-> <<>>]
        ELSE [st |-> "ok", infos |-> <<>>]

RECURSIVE LoadErrors(_, _)
LoadErrors(list, i) ==
    IF i > Len(list) THEN <<>> ELSE LoadError(list[i]) \o LoadErrors(list, i + 1)

\* Lines 253-265: the elements appended, up to the end of the list or to the
\* element whose dict() raises.
RECURSIVE LoadBuildInfos(_, _, _)
LoadBuildInfos(list, i, infos) ==
    IF i > Len(list) THEN [st |-> "ok", infos |-> infos]
    ELSE LET one == LoadBuildInfo(list[i]) IN
         IF one.st = "raised" THEN [st |-> "raised", exc |-> one.exc, infos |-> infos]
         ELSE LoadBuildInfos(list, i + 1, infos \o one.infos)

\* Root._initialize on the parsed artifact: the three collections of the Root
\* when it returns (st = "ok") or when the exception of line 261 leaves it, the
\* sources and the errors loaded and the build infos before the failing one
\* appended.
_initialize(data) ==
    LET _sources     == Get(data, "sources")
        _errors      == Get(data, "errors")
        _build_infos == Get(data, "build_infos")
        infos        == IF Truthy(_build_infos)
                        THEN LoadBuildInfos(_build_infos.l, 1, <<>>)
                        ELSE [st |-> "ok", infos |-> <<>>]
    IN  [st  |-> infos.st,
         exc |-> IF infos.st = "raised" THEN infos.exc ELSE "",
         sources |->
            IF Truthy(_sources)
            THEN [i \in 1..Len(_sources.d) |->
                     <<_sources.d[i][1], LoadFiles(_sources.d[i][2].l, 1)>>]
            ELSE <<>>,
         errors |-> IF Truthy(_errors) THEN LoadErrors(_errors.l, 1) ELSE <<>>,
         build_infos |-> infos.infos]

(***************************************************************************)
(* Root._build_position_index                                              *)
(***************************************************************************)

\* file_id_to_path[file_id] = file_path on the list of items of the dict.
PutPath(paths, file_id, file_path) ==
    IF \E i \in 1..Len(paths) : paths[i][1] = file_id
    THEN [i \in 1..Len(paths) |->
             IF paths[i][1] = file_id THEN <<file_id, file_path>> ELSE paths[i]]
    ELSE Append(paths, <<file_id, file_path>>)

\* Lines 271-276: the items of one source_id_to_path.  int() of a key that is a
\* string parses it (a ValueError is caught: continue), of an integer is the
\* integer, of None is a TypeError, which is not caught.
RECURSIVE AddPaths(_, _, _)
AddPaths(paths, items, i) ==
    IF i > Len(items) THEN [st |-> "ok", paths |-> paths]
    ELSE LET key == items[i][1] IN
         IF IsStr(key)
         THEN LET file_id == ParseInt(key.s) IN
              AddPaths(IF file_id.ok THEN PutPath(paths, file_id.v, items[i][2].s) ELSE paths,
                       items, i + 1)
         ELSE IF IsInt(key)
         THEN AddPaths(PutPath(paths, key.i, items[i][2].s), items, i + 1)
         ELSE [st |-> "raised", exc |-> "TypeError", paths |-> paths]

\* Lines 270-276
RECURSIVE BuildPaths(_, _, _)
BuildPaths(paths, infos, i) ==
    IF i > Len(infos) THEN [st |-> "ok", paths |-> paths]
    ELSE LET one == AddPaths(paths, infos[i].source_id_to_path.d, 1) IN
         IF one.st = "raised" THEN one ELSE BuildPaths(one.paths, infos, i + 1)

\* All File slots of Root.sources, in the order of lines 279-280.
RECURSIVE AllFiles(_, _)
AllFiles(srcs, i) == IF i > Len(srcs) THEN <<>> ELSE srcs[i][2] \o AllFiles(srcs, i + 1)

\* Lines 281-282 over the slots.  A slot is None, or a File whose source_file is
\* a SourceFile, or a File whose source_file is still the raw dict, which has no
\* attribute `ast`: the AttributeError leaves __post_init__, with the index as
\* the slots before it left it.
RECURSIVE IndexFiles(_, _, _)
IndexFiles(pi, files, i) ==
    IF i > Len(files) THEN [st |-> "ok", pi |-> pi]
    ELSE LET file == files[i] IN
         IF Truthy(file) /\ Truthy(file.source_file)
         THEN IF file.source_file.t = "SourceFile"
              THEN IndexFiles(_index_ast_nodes(pi, file.source_file.ast,
                                               file.source_file.id, 0),
                              files, i + 1)
              ELSE [st |-> "raised", exc |-> "AttributeError", pi |-> pi]
         ELSE IndexFiles(pi, files, i + 1)

\* Lines 267-284.  An exception of line 282 leaves before line 284: the paths are
\* written, the slots before the failing one are indexed, no bucket is sorted.
_build_position_index(pi, srcs, infos) ==
    LET paths     == BuildPaths(pi.file_id_to_path, infos, 1)
        withPaths == [pi EXCEPT !.file_id_to_path = paths.paths]
        indexed   == IndexFiles(withPaths, AllFiles(srcs, 1), 1)
    IN  IF paths.st = "raised"
        THEN [st |-> "raised", exc |-> paths.exc, pi |-> withPaths]
        ELSE IF indexed.st = "ok"
        THEN [st |-> "ok", pi |-> finalize_index(indexed.pi)]
        ELSE indexed

(***************************************************************************)
(* Resolver                                                                *)
(*                                                                         *)
(* A query reads a source file.  `read` is what open(...).read() does at   *)
(* that moment: [st |-> "ok", text |-> the content], or the exception it   *)
(* raises: FileNotFoundError for a missing file, PermissionError for a     *)
(* file that may not be read, UnicodeDecodeError for bytes that are not    *)
(* UTF-8.  A call ends [st |-> "returned", value |-> v] or                 *)
(* [st |-> "raised", exc |-> e].                                           *)
(***************************************************************************)

Returned(v) == [st |-> "returned", value |-> v]
Raised(e)   == [st |-> "raised", exc |-> e]

\* s.endswith(suffix)
EndsWith(s, suffix) ==
    /\ Len(suffix) <= Len(s)
    /\ SubSeq(s, Len(s) - Len(suffix) + 1, Len(s)) = suffix

Scheme == <<"f", "i", "l", "e", ":", "/", "/">>

\* s.replace(old, ""): every occurrence of old, found left to right, removed.
RECURSIVE RemoveAll(_, _)
RemoveAll(s, old) ==
    IF Len(s) < Len(old) THEN s
    ELSE IF SubSeq(s, 1, Len(old)) = old
         THEN RemoveAll(SubSeq(s, Len(old) + 1, Len(s)), old)
         ELSE <<Head(s)>> \o RemoveAll(Tail(s), old)

\* Lines 349-355: the index in file_id_to_path of the first path the uri matches, or 0.
RECURSIVE MatchPath(_, _, _)
MatchPath(paths, file_uri, i) ==
    IF i > Len(paths) THEN 0
    ELSE IF \/ EndsWith(file_uri, paths[i][2])
            \/ EndsWith(paths[i][2], RemoveAll(file_uri, Scheme))
         THEN i
         ELSE MatchPath(paths, file_uri, i + 1)

\* The exceptions of a read that each handler catches.
CaughtByFindNodeAtPosition == {"FileNotFoundError", "KeyError"}
CaughtByNodeToLocation     == {"FileNotFoundError"}

find_node_at_position(pi, file_uri, line, character, read) ==
    LET m == MatchPath(pi.file_id_to_path, file_uri, 1) IN
    IF m = 0 THEN Returned(None)
    ELSE IF read.st = "ok"
         THEN Returned(find_innermost_node(pi, pi.file_id_to_path[m][1],
                           lsp_position_to_byte_offset(read.text, line, character)))
         ELSE IF read.exc \in CaughtByFindNodeAtPosition THEN Returned(None)
         ELSE Raised(read.exc)

\* file_id in file_id_to_path
HasPath(paths, file_id) == \E i \in 1..Len(paths) : paths[i][1] = file_id

\* file_id_to_path[file_id]
PathOf(paths, file_id) == paths[CHOOSE i \in 1..Len(paths) : paths[i][1] = file_id][2]

Location(file_uri, line, character) ==
    [t |-> "location", file_uri |-> file_uri, line |-> line, character |-> character]

_node_to_location(pi, node, read) ==
    IF ~HasPath(pi.file_id_to_path, node.file_id) THEN Returned(None)
    ELSE IF read.st = "ok"
         THEN LET pos == byte_offset_to_lsp_position(read.text, node.start_byte)
              IN  Returned(Location(Scheme \o PathOf(pi.file_id_to_path, node.file_id),
                                    pos[1], pos[2]))
         ELSE IF read.exc \in CaughtByNodeToLocation THEN Returned(None)
         ELSE Raised(read.exc)

\* re.search(r"\$(\d+)", s): the digits of the first "$" that a digit follows,
\* taken as far as digits go; <<>> when there is no match.
RECURSIVE DigitRun(_, _)
DigitRun(s, i) ==
    IF i <= Len(s) /\ s[i] \in Digits THEN <<s[i]>> \o DigitRun(s, i + 1) ELSE <<>>

RECURSIVE SearchDollarDigits(_, _)
SearchDollarDigits(s, i) ==
    IF i >= Len(s) THEN <<>>
    ELSE IF s[i] = "$" /\ s[i + 1] \in Digits THEN DigitRun(s, i + 1)
    ELSE SearchDollarDigits(s, i + 1)

\* Lines 376-395 up to the choice of target_node: Returned(the target entry),
\* Returned(None) when line 395 is reached, or the exception of lines 382-388
\* when typeDescriptions or typeIdentifier is present and null.  Line 377 hashes
\* a true referencedDeclaration: a list or a dict is not hashable (TypeError),
\* and a string is no key of node_by_id.
declaration_target(pi, node) ==
    LET referenced_id == Get(node.node_data, "referencedDeclaration") IN
    IF Truthy(referenced_id) /\ (IsList(referenced_id) \/ IsDict(referenced_id))
    THEN Raised("TypeError")
    ELSE IF /\ Truthy(referenced_id) /\ IsInt(referenced_id)
            /\ referenced_id.i \in DOMAIN pi.node_by_id
    THEN Returned(pi.node_by_id[referenced_id.i])
    ELSE LET type_desc == GetOr(node.node_data, "typeDescriptions", JDict(<<>>)) IN
         IF ~IsDict(type_desc) THEN Raised("AttributeError")
         ELSE LET type_id == GetOr(type_desc, "typeIdentifier", JStr(<<>>)) IN
              IF ~IsStr(type_id) THEN Raised("TypeError")
              ELSE LET digits == SearchDollarDigits(type_id.s, 1) IN
                   IF digits # <<>> /\ DigitsVal(digits, 0) \in DOMAIN pi.node_by_id
                   THEN Returned(pi.node_by_id[DigitsVal(digits, 0)])
                   ELSE Returned(None)

get_declaration_location(pi, node, read) ==
    LET target == declaration_target(pi, node) IN
    IF target.st = "raised" THEN target
    ELSE IF target.value = None THEN Returned(None)
    ELSE _node_to_location(pi, target.value, read)

(***************************************************************************)
(* The state of the components a specification does not exercise           *)
(***************************************************************************)

NoOp == [op |-> "none"]

Count(e, s) == Cardinality({i \in 1..Len(s) : s[i] = e})

Elems(s) == {s[i] : i \in 1..Len(s)}

CodecIdle == content = <<>> /\ codec = NoOp

IndexIdle ==
    /\ file_nodes = EmptyDict
    /\ node_by_id = EmptyDict
    /\ file_id_to_path = <<>>
    /\ added = <<>>
    /\ before = EmptyDict
    /\ query = NoOp

\* The threads that call the queries of a Root.
Threads == {1, 2}

\* A thread that is in no query: no operation, and the locals of the queries
\* unset.  `overlapped` is history: another thread took a step while this one
\* was in its query.
IdleThread ==
    [pc |-> "idle", op |-> "none", args |-> NoOp, file_id |-> 0, file_path |-> <<>>, byte_offset |-> 0,
     i |-> 0, containing_nodes |-> <<>>, target_node |-> None, read |-> None,
     within |-> FALSE, overlapped |-> FALSE, result |-> None]

NoThreads == [t \in Threads |-> IdleThread]

RootIdle ==
    /\ artifact = None
    /\ sources = <<>>
    /\ errors = <<>>
    /\ build_infos = <<>>
    /\ pc = "none"
    /\ threads = NoThreads

\* The PositionIndex object held in the three index variables.
PI == [file_nodes |-> file_nodes, node_by_id |-> node_by_id,
       file_id_to_path |-> file_id_to_path]

SetPI(pi) ==
    /\ file_nodes' = pi.file_nodes
    /\ node_by_id' = pi.node_by_id
    /\ file_id_to_path' = pi.file_id_to_path

(***************************************************************************)
(* Specification of the codec: the two conversions applied to a buffer     *)
(***************************************************************************)

Texts == UNION {[1..n -> Chars] : n \in 0..MaxLen}

CodecInit ==
    /\ content \in Texts
    /\ codec = NoOp
    /\ IndexIdle /\ RootIdle

\* byte_offset_to_lsp_position(content, b), b also just outside the buffer.
ByteOffsetToLspPosition ==
    /\ codec.op # "o2p"
    /\ \E b \in -1..(Utf8Len(content) + 1) :
         codec' = [op |-> "o2p", offset |-> b,
                   pos |-> byte_offset_to_lsp_position(content, b)]
    /\ UNCHANGED <<content, indexVars, rootVars>>

\* lsp_position_to_byte_offset(content, line, column) on the position just computed.
LspPositionToByteOffsetOfResult ==
    /\ codec.op = "o2p"
    /\ codec' = [op |-> "o2p2o", offset |-> codec.offset, pos |-> codec.pos,
                 back |-> lsp_position_to_byte_offset(content, codec.pos[1], codec.pos[2])]
    /\ UNCHANGED <<content, indexVars, rootVars>>

\* lsp_position_to_byte_offset(content, line, column) on any position.
LspPositionToByteOffset ==
    /\ codec.op = "none"
    /\ \E line \in -1..(MaxLen + 1), col \in -1..(2 * MaxLen + 1) :
         codec' = [op |-> "p2o", line |-> line, col |-> col,
                   offset |-> lsp_position_to_byte_offset(content, line, col)]
    /\ UNCHANGED <<content, indexVars, rootVars>>

CodecNext ==
    \/ ByteOffsetToLspPosition
    \/ LspPositionToByteOffsetOfResult
    \/ LspPositionToByteOffset

SpecCodec == CodecInit /\ [][CodecNext]_vars

(***************************************************************************)
(* Specification of a PositionIndex used directly: add_node,               *)
(* finalize_index and the two lookups, in any order                        *)
(***************************************************************************)

NodeIds  == {1, 2}
FileIds  == {0, 1}
Ranges   == {<<0, 2>>, <<1, 2>>, <<1, 1>>}
Depths   == {0, 1}
Offsets  == 0..2

Entries ==
    {AstNodeIndex(id, f, r[1], r[2], JStr(<<"Unknown">>), JDict(<<>>), d) :
        id \in NodeIds, f \in FileIds, r \in Ranges, d \in Depths}

Init ==
    /\ CodecIdle /\ RootIdle
    /\ file_nodes = NewPositionIndex.file_nodes
    /\ node_by_id = NewPositionIndex.node_by_id
    /\ file_id_to_path = NewPositionIndex.file_id_to_path
    /\ added = <<>>
    /\ before = EmptyDict
    /\ query = NoOp

\* The index of a Root is in use once the constructor has returned (pc = "ready");
\* an index made directly has no Root (pc = "none").
InUse == pc \in {"none", "ready"}

AddNode ==
    /\ pc = "none"
    /\ Len(added) < MaxAdds
    /\ \E e \in Entries :
         /\ SetPI(add_node(PI, e))
         /\ added' = Append(added, e)
    /\ query' = [op |-> "add_node"]
    /\ before' = file_nodes
    /\ UNCHANGED <<codecVars, rootVars>>

FinalizeIndex ==
    /\ pc = "none"
    /\ SetPI(finalize_index(PI))
    /\ before' = file_nodes
    /\ query' = [op |-> "finalize_index", prev |-> query.op]
    /\ UNCHANGED <<added, codecVars, rootVars>>

FindNodesAtPosition ==
    /\ InUse
    /\ \E f \in FileIds \cup {2}, o \in Offsets :
         query' = [op |-> "find_nodes_at_position",
                   file_id |-> f, byte_offset |-> o,
                   result |-> find_nodes_at_position(PI, f, o)]
    /\ before' = file_nodes
    /\ UNCHANGED <<file_nodes, node_by_id, file_id_to_path, added, codecVars, rootVars>>

FindInnermostNode ==
    /\ InUse
    /\ \E f \in FileIds \cup {2}, o \in Offsets :
         query' = [op |-> "find_innermost_node",
                   file_id |-> f, byte_offset |-> o,
                   result |-> find_innermost_node(PI, f, o)]
    /\ before' = file_nodes
    /\ UNCHANGED <<file_nodes, node_by_id, file_id_to_path, added, codecVars, rootVars>>

Next ==
    \/ AddNode
    \/ FinalizeIndex
    \/ FindNodesAtPosition
    \/ FindInnermostNode

Spec == Init /\ [][Next]_vars

(***************************************************************************)
(* Specification of a Root: construction from an artifact (_initialize,    *)
(* then _build_position_index), then queries in any order                  *)
(***************************************************************************)

\* src strings: well formed, of another file, of negative length (solc writes
\* "-1:-1:-1" for a node without a source location), and malformed.
SrcStrings ==
    {<<"0", ":", "3", ":", "0">>,
     <<"1", ":", "1", ":", "0">>,
     <<"2", ":", "1", ":", "1">>,
     <<"1", ":", "-", "1", ":", "0">>,
     <<"b", "a", "d">>}

\* typeDescriptions values: absent (None here), empty, a typeIdentifier whose
\* first "$" marker is 3, one whose first marker is 7 and second 3, one without
\* marker, and a null typeIdentifier.
TypeDescriptions ==
    {None,
     JDict(<<>>),
     JDict(<< <<"typeIdentifier", JStr(<<"t", "$", "_", "$", "3", "_">>)>> >>),
     JDict(<< <<"typeIdentifier", JStr(<<"$", "7", "$", "3">>)>> >>),
     JDict(<< <<"typeIdentifier", None>> >>)}

\* referencedDeclaration values: absent (None here) or an integer.
ReferencedDeclarations == {None, JInt(0), JInt(3), JInt(7)}

\* The items of a dict, the keys given as None left out.
Items(pairs) == SelectSeq(pairs, LAMBDA kv : kv[2] # None)

DeclNode(id, src) ==
    JDict(<< <<"id", JInt(id)>>, <<"src", JStr(src)>>,
             <<"nodeType", JStr(<<"VariableDeclaration">>)>> >>)

RefNode(ref, td) ==
    JDict(Items(<< <<"id", JInt(2)>>, <<"src", JStr(<<"1", ":", "1", ":", "0">>)>>,
                   <<"nodeType", JStr(<<"Identifier">>)>>,
                   <<"referencedDeclaration", ref>>,
                   <<"typeDescriptions", td>> >>))

SourceUnit(decl, ref) ==
    JDict(<< <<"id", JInt(1)>>, <<"src", JStr(<<"0", ":", "3", ":", "0">>)>>,
             <<"nodeType", JStr(<<"SourceUnit">>)>>,
             <<"nodes", JList(<<decl, ref>>)>> >>)

\* The declaration nodes: of id 3 or 0, with each of the src strings.
DeclNodes ==
    {DeclNode(3, src) : src \in SrcStrings} \cup {DeclNode(0, <<"1", ":", "1", ":", "0">>)}

Asts ==
    {SourceUnit(decl, RefNode(ref, td)) :
        decl \in DeclNodes, ref \in ReferencedDeclarations, td \in TypeDescriptions}

\* A function body as solc writes it: a Block whose statements list holds one
\* ExpressionStatement whose expression is one Identifier.
Identifier ==
    JDict(<< <<"id", JInt(7)>>, <<"src", JStr(<<"1", ":", "1", ":", "0">>)>>,
             <<"nodeType", JStr(<<"Identifier">>)>> >>)

ExpressionStatement ==
    JDict(<< <<"id", JInt(6)>>, <<"src", JStr(<<"1", ":", "1", ":", "0">>)>>,
             <<"nodeType", JStr(<<"ExpressionStatement">>)>>,
             <<"expression", Identifier>> >>)

Block ==
    JDict(<< <<"id", JInt(5)>>, <<"src", JStr(<<"1", ":", "2", ":", "0">>)>>,
             <<"nodeType", JStr(<<"Block">>)>>,
             <<"statements", JList(<<ExpressionStatement>>)>> >>)

\* The keys a function keeps a child under: two of the child-list set (of which
\* "parameters" is also in the single-child list), one of the single-child list
\* only, one of neither, and "nodes".
FunctionKeys == {"body", "parameters", "expression", "returnParameters", "nodes"}

\* A function of the src given, with the value given under the key given.
FunctionDefinition(src, key, value) ==
    JDict(<< <<"id", JInt(4)>>, <<"src", JStr(src)>>,
             <<"nodeType", JStr(<<"FunctionDefinition">>)>>,
             <<key, value>> >>)

\* Source units of one function, well placed or of malformed src, that holds the
\* Block as the value of each key or as the one element of its list value,
\* beside a reference to the function.
NestedAsts ==
    {SourceUnit(FunctionDefinition(src, key, value), RefNode(JInt(4), None)) :
        src \in {<<"0", ":", "3", ":", "0">>, <<"b", "a", "d">>},
        key \in FunctionKeys,
        value \in {Block, JList(<<Block>>)}}

\* A reference whose referencedDeclaration is a list, and one whose typeIdentifier
\* names the declaration beside: a list is not hashable.
UnhashableAsts ==
    {SourceUnit(DeclNode(3, <<"1", ":", "1", ":", "0">>),
                RefNode(JList(<<JInt(3)>>), td)) :
        td \in {None, JDict(<< <<"typeIdentifier", JStr(<<"t", "$", "_", "$", "3", "_">>)>> >>)}}

\* One element of a sources list; a field given as None is left out.
FileRecord(version, source_file) ==
    JDict(Items(<< <<"version", version>>, <<"build_id", JStr(<<"b">>)>>,
                   <<"profile", JStr(<<"p">>)>>, <<"source_file", source_file>> >>))

FileShapes == {"complete", "no version", "id not int", "no ast", "no source_file",
               "complete, no version", "complete, id not int"}

FilesOf(shape, ast) ==
    LET whole == JDict(<< <<"id", JInt(0)>>, <<"ast", ast>> >>)
        idStr == JDict(<< <<"id", JStr(<<"0">>)>>, <<"ast", ast>> >>)
        v     == JStr(<<"v">>)
    IN  CASE shape = "complete"       -> <<FileRecord(v, whole)>>
          [] shape = "no version"     -> <<FileRecord(None, whole)>>
          [] shape = "id not int"     -> <<FileRecord(v, idStr)>>
          [] shape = "complete, id not int" -> <<FileRecord(v, whole), FileRecord(v, idStr)>>
          [] shape = "no ast"         -> <<FileRecord(v, JDict(<< <<"id", JInt(0)>> >>))>>
          [] shape = "no source_file" -> <<FileRecord(v, None)>>
          [] shape = "complete, no version" ->
                <<FileRecord(v, whole), FileRecord(None, whole)>>

PathA == <<"/", "a">>
PathB == <<"/", "b">>

InfoRecord(id, source_map) ==
    JDict(Items(<< <<"id", id>>, <<"source_id_to_path", source_map>>,
                   <<"language", JStr(<<"Solidity">>)>> >>))

InfoShapes == {"two paths", "bad key", "blank key", "no id", "none",
               "pairs", "None key", "integer", "string"}

InfosOf(shape) ==
    CASE shape = "two paths" ->
            <<InfoRecord(JStr(<<"i">>),
                         JDict(<< << <<"0">>, JStr(PathA)>>, << <<"1">>, JStr(PathB)>> >>))>>
      [] shape = "bad key" ->
            <<InfoRecord(JStr(<<"i">>),
                         JDict(<< << <<"x">>, JStr(PathB)>>, << <<"0">>, JStr(PathA)>> >>))>>
      [] shape = "blank key" ->
            <<InfoRecord(JStr(<<"i">>),
                         JDict(<< << <<" ", "0">>, JStr(PathA)>>,
                                  << <<"0", "_", "1">>, JStr(PathB)>> >>))>>
      [] shape = "no id" ->
            <<InfoRecord(None, JDict(<< << <<"0">>, JStr(PathA)>> >>))>>
      [] shape = "none" -> <<>>
      [] shape = "pairs" ->
            <<InfoRecord(JStr(<<"i">>),
                         JList(<<JList(<<JStr(<<"0">>), JStr(PathB)>>),
                                 JList(<<JInt(1), JStr(PathB)>>),
                                 JList(<<JStr(<<"0">>), JStr(PathA)>>)>>))>>
      [] shape = "None key" ->
            <<InfoRecord(JStr(<<"i">>),
                         JList(<<JList(<<JStr(<<"0">>), JStr(PathA)>>),
                                 JList(<<None, JStr(PathB)>>)>>))>>
      [] shape = "integer" ->
            <<InfoRecord(JStr(<<"i">>), JDict(<< << <<"0">>, JStr(PathA)>> >>)),
              InfoRecord(JStr(<<"j">>), JInt(5))>>
      [] shape = "string" ->
            <<InfoRecord(JStr(<<"i">>), JStr(<<"0", "1">>))>>

ErrorRecord(type, severity, code, message) ==
    JDict(Items(<< <<"sourceLocation",
                     JDict(<< <<"file", JStr(PathA)>>, <<"start", JInt(0)>>,
                              <<"end", JInt(1)>> >>)>>,
                   <<"type", JStr(type)>>, <<"errorCode", code>>,
                   <<"message", message>>, <<"severity", JStr(severity)>> >>))

ErrorShapes == {"complete", "upper case", "code 0", "no message", "none"}

ErrorsOf(shape) ==
    LET Warning == <<"W", "a", "r", "n", "i", "n", "g">>
        warning == <<"w", "a", "r", "n", "i", "n", "g">>
    IN
    CASE shape = "complete"   ->
            <<ErrorRecord(Warning, warning, JStr(<<"2072">>), JStr(<<"m">>))>>
      [] shape = "upper case" ->
            <<ErrorRecord(<<"W", "A", "R", "N", "I", "N", "G">>, <<"E", "r", "r", "o", "r">>,
                          JStr(<<"2072">>), JStr(<<"m">>)),
              ErrorRecord(<<"I", "n", "f", "o">>, warning, JStr(<<"2072">>), JStr(<<"m">>))>>
      [] shape = "code 0"     -> <<ErrorRecord(Warning, warning, JInt(0), JStr(<<"m">>))>>
      [] shape = "no message" -> <<ErrorRecord(Warning, warning, JStr(<<"2072">>), None)>>
      [] shape = "none"       -> <<>>

\* The record shapes met together in one artifact.
Shapes ==
    {<<"complete", "two paths", "complete">>,
     <<"complete", "bad key", "code 0">>,
     <<"complete, no version", "two paths", "no message">>,
     <<"no version", "none", "none">>,
     <<"complete", "blank key", "upper case">>,
     <<"id not int", "two paths", "none">>,
     <<"complete, id not int", "two paths", "upper case">>,
     <<"no ast", "no id", "complete">>,
     <<"no source_file", "two paths", "none">>,
     <<"complete", "pairs", "complete">>,
     <<"complete", "None key", "none">>,
     <<"complete", "integer", "complete">>,
     <<"complete", "string", "none">>}

Artifact(ast, shape) ==
    JDict(<< <<"sources", JDict(<< <<"a.sol", JList(FilesOf(shape[1], ast))>> >>)>>,
             <<"errors", JList(ErrorsOf(shape[3]))>>,
             <<"build_infos", JList(InfosOf(shape[2]))>> >>)

\* Every AST in an artifact whose records are complete, and every combination of
\* record shapes around one AST.
Artifacts ==
    {Artifact(ast, <<"complete", "two paths", "complete">>) :
        ast \in Asts \cup NestedAsts \cup UnhashableAsts}
    \cup {Artifact(SourceUnit(DeclNode(3, <<"1", ":", "1", ":", "0">>),
                              RefNode(JInt(3), None)), shape) : shape \in Shapes}

\* What reading a source file does at the time of a query.
DiskTexts == {<<"u4", NL, "a">>}

Reads ==
    {[st |-> "ok", text |-> t] : t \in DiskTexts}
    \cup {[st |-> "raised", exc |-> e] :
            e \in {"FileNotFoundError", "PermissionError", "UnicodeDecodeError"}}

Uris == {Scheme \o PathA, PathB, Scheme \o <<"/", "c">>}

RootInit ==
    /\ CodecIdle
    /\ artifact \in Artifacts
    /\ sources = <<>>
    /\ errors = <<>>
    /\ build_infos = <<>>
    /\ pc = "new"
    /\ threads = NoThreads
    /\ file_nodes = NewPositionIndex.file_nodes
    /\ node_by_id = NewPositionIndex.node_by_id
    /\ file_id_to_path = NewPositionIndex.file_id_to_path
    /\ added = <<>>
    /\ before = EmptyDict
    /\ query = NoOp

\* __post_init__, line 164; an exception leaves the constructor.
Initialize ==
    /\ pc = "new"
    /\ LET loaded == _initialize(artifact) IN
       /\ sources' = loaded.sources
       /\ errors' = loaded.errors
       /\ build_infos' = loaded.build_infos
       /\ pc' = IF loaded.st = "ok" THEN "loaded" ELSE "raised in _initialize"
    /\ UNCHANGED <<artifact, threads, indexVars, codecVars>>

\* __post_init__, line 165; an exception leaves the constructor.
BuildPositionIndex ==
    /\ pc = "loaded"
    /\ LET built == _build_position_index(PI, sources, build_infos) IN
       /\ SetPI(built.pi)
       /\ pc' = IF built.st = "ok" THEN "ready" ELSE "raised"
    /\ UNCHANGED <<artifact, sources, errors, build_infos, threads, added, before, query,
                   codecVars>>

\* The entries of the index.
IndexedNodes == UNION {Elems(file_nodes[f]) : f \in DOMAIN file_nodes}

FindNodeAtPosition ==
    /\ pc = "ready"
    /\ \E uri \in Uris, line \in 0..1, character \in 0..1, read \in Reads :
         query' = [op |-> "find_node_at_position",
                   file_uri |-> uri, line |-> line, character |-> character,
                   read |-> read,
                   result |-> find_node_at_position(PI, uri, line, character, read)]
    /\ before' = file_nodes
    /\ UNCHANGED <<file_nodes, node_by_id, file_id_to_path, added, rootVars, codecVars>>

GetDeclarationLocation ==
    /\ pc = "ready"
    /\ \E node \in IndexedNodes, read \in Reads :
         query' = [op |-> "get_declaration_location",
                   node |-> node, read |-> read,
                   target |-> declaration_target(PI, node),
                   result |-> get_declaration_location(PI, node, read)]
    /\ before' = file_nodes
    /\ UNCHANGED <<file_nodes, node_by_id, file_id_to_path, added, rootVars, codecVars>>

RootNext ==
    \/ Initialize
    \/ BuildPositionIndex
    \/ FindNodeAtPosition
    \/ GetDeclarationLocation
    \/ FindNodesAtPosition
    \/ FindInnermostNode

SpecRoot == RootInit /\ [][RootNext]_vars

(***************************************************************************)
(* Concurrent queries on a constructed Root                                *)
(*                                                                         *)
(* Each thread runs one query at a time, a step per access to the index or *)
(* to the disk; the steps of the threads interleave, also while a thread   *)
(* waits for the disk.  The locals of a query (file_id, file_path,         *)
(* byte_offset, the loop position i, containing_nodes, target_node, the    *)
(* content read) are the thread's own.                                     *)
(***************************************************************************)

\* The ASTs under concurrent queries: a function whose body is a list holding
\* the Block, with six entries in one bucket at four depths, and a declaration
\* in a second file.
ThreadAsts ==
    {SourceUnit(FunctionDefinition(<<"0", ":", "3", ":", "0">>, "body", JList(<<Block>>)),
                RefNode(JInt(4), None)),
     SourceUnit(DeclNode(3, <<"2", ":", "1", ":", "1">>), RefNode(JInt(3), None))}

ThreadOffsets == {0, 1}

ThreadUris == {Scheme \o PathA, Scheme \o <<"/", "c">>}

ThreadReads ==
    {[st |-> "ok", text |-> t] : t \in DiskTexts}
    \cup {[st |-> "raised", exc |-> "PermissionError"]}

\* The calls a thread makes, each with the position its query starts at.
Calls ==
    {[op |-> op, pc |-> "line 63",
      args |-> [op |-> op, file_id |-> f, byte_offset |-> o]] :
        op \in {"find_nodes_at_position", "find_innermost_node"},
        f \in FileIds, o \in ThreadOffsets}
    \cup {[op |-> "find_node_at_position", pc |-> "line 349",
           args |-> [op |-> "find_node_at_position", file_uri |-> uri,
                     line |-> 0, character |-> character]] :
            uri \in ThreadUris, character \in 0..1}
    \cup {[op |-> "get_declaration_location", pc |-> "line 376",
           args |-> [op |-> "get_declaration_location", node |-> node]] :
            node \in IndexedNodes}

InQuery(th) == th.pc \notin {"idle", "done"}

\* Where a thread waits for the disk: at open() of lines 363 and 405.
DiskWaits == {"line 363", "line 405"}

\* Thread t goes on as `next`; the others keep their locals.  `within` of a
\* thread says that since its call another thread has stood waiting for the
\* disk; `overlapped` of a thread says that a whole query of another thread,
\* from call to return, ran while it waited for the disk.
Step(t, next) ==
    threads' = [u \in Threads |->
                  IF u = t THEN next
                  ELSE [threads[u] EXCEPT
                          !.within = FALSE,
                          !.overlapped = \/ @
                                         \/ /\ threads[u].pc \in DiskWaits
                                            /\ threads[t].within
                                            /\ next.pc = "done"]]

Return(th, result) == [th EXCEPT !.pc = "done", !.result = result]

ThreadsInit ==
    /\ CodecIdle
    /\ artifact \in {Artifact(ast, <<"complete", "two paths", "complete">>) :
                        ast \in ThreadAsts}
    /\ sources = <<>>
    /\ errors = <<>>
    /\ build_infos = <<>>
    /\ pc = "new"
    /\ threads = NoThreads
    /\ file_nodes = NewPositionIndex.file_nodes
    /\ node_by_id = NewPositionIndex.node_by_id
    /\ file_id_to_path = NewPositionIndex.file_id_to_path
    /\ added = <<>>
    /\ before = EmptyDict
    /\ query = NoOp

\* A thread calls one of the four queries.
ThreadCall ==
    /\ pc = "ready"
    /\ \E t \in Threads, call \in Calls :
         /\ threads[t].pc = "idle"
         /\ Step(t, [IdleThread EXCEPT !.pc = call.pc, !.op = call.op, !.args = call.args,
                                       !.within = \E u \in Threads \ {t} :
                                                      threads[u].pc \in DiskWaits,
                                       !.file_id = IF call.pc = "line 63"
                                                   THEN call.args.file_id ELSE 0,
                                       !.byte_offset = IF call.pc = "line 63"
                                                       THEN call.args.byte_offset ELSE 0])
    /\ UNCHANGED <<artifact, sources, errors, build_infos, pc, indexVars, codecVars>>

\* find_node_at_position, lines 349-358: the file id of the first matching path.
ThreadMatch ==
    /\ pc = "ready"
    /\ \E t \in Threads :
         LET th == threads[t]
             m  == MatchPath(file_id_to_path, th.args.file_uri, 1)
         IN  /\ th.pc = "line 349"
             /\ Step(t, IF m = 0 THEN Return(th, Returned(None))
                        ELSE [th EXCEPT !.pc = "line 362", !.file_id = file_id_to_path[m][1]])
    /\ UNCHANGED <<artifact, sources, errors, build_infos, pc, indexVars, codecVars>>

\* find_node_at_position, line 362: file_path = file_id_to_path[file_id]
ThreadPath ==
    /\ pc = "ready"
    /\ \E t \in Threads :
         LET th == threads[t] IN
         /\ th.pc = "line 362"
         /\ Step(t, IF HasPath(file_id_to_path, th.file_id)
                    THEN [th EXCEPT !.pc = "line 363",
                                    !.file_path = PathOf(file_id_to_path, th.file_id)]
                    ELSE Return(th, Returned(None)))
    /\ UNCHANGED <<artifact, sources, errors, build_infos, pc, indexVars, codecVars>>

\* find_node_at_position, lines 363-364 and 368-369: open() and f.read() of
\* file_path, as the disk is when it answers; the thread waits for the disk with
\* file_path in hand while the others run.
ThreadRead ==
    /\ pc = "ready"
    /\ \E t \in Threads, read \in ThreadReads :
         LET th == threads[t] IN
         /\ th.pc = "line 363"
         /\ Step(t, IF read.st = "ok"
                    THEN [th EXCEPT !.pc = "line 366", !.read = read]
                    ELSE Return([th EXCEPT !.read = read],
                                IF read.exc \in CaughtByFindNodeAtPosition
                                THEN Returned(None) ELSE Raised(read.exc)))
    /\ UNCHANGED <<artifact, sources, errors, build_infos, pc, indexVars, codecVars>>

\* find_node_at_position, lines 366-367: the byte offset of the position in the
\* content read, and the call of find_innermost_node.
ThreadOffset ==
    /\ pc = "ready"
    /\ \E t \in Threads :
         LET th == threads[t] IN
         /\ th.pc = "line 366"
         /\ Step(t, [th EXCEPT !.pc = "line 63",
                               !.byte_offset =
                                   lsp_position_to_byte_offset(
                                       th.read.text, th.args.line, th.args.character)])
    /\ UNCHANGED <<artifact, sources, errors, build_infos, pc, indexVars, codecVars>>

\* find_nodes_at_position, lines 63-67: the bucket of the file, if there is one.
ThreadCheck ==
    /\ pc = "ready"
    /\ \E t \in Threads :
         LET th == threads[t] IN
         /\ th.pc = "line 63"
         /\ Step(t, IF th.file_id \notin DOMAIN file_nodes
                    THEN Return(th, Returned(IF th.op = "find_nodes_at_position"
                                             THEN <<>> ELSE None))
                    ELSE [th EXCEPT !.pc = "line 70", !.i = 1, !.containing_nodes = <<>>])
    /\ UNCHANGED <<artifact, sources, errors, build_infos, pc, indexVars, codecVars>>

\* find_nodes_at_position, lines 70-72: one iteration over the bucket, which is
\* the list the index holds, or the end of the loop.
ThreadScan ==
    /\ pc = "ready"
    /\ \E t \in Threads :
         LET th    == threads[t]
             nodes == file_nodes[th.file_id]
         IN  /\ th.pc = "line 70"
             /\ Step(t, IF th.i > Len(nodes) THEN [th EXCEPT !.pc = "line 75"]
                        ELSE [th EXCEPT !.i = th.i + 1,
                                        !.containing_nodes =
                                            IF /\ nodes[th.i].start_byte <= th.byte_offset
                                               /\ th.byte_offset < nodes[th.i].end_byte
                                            THEN Append(@, nodes[th.i]) ELSE @])
    /\ UNCHANGED <<artifact, sources, errors, build_infos, pc, indexVars, codecVars>>

\* Line 75 on the bucket instead of on containing_nodes: nodes.sort(...) sorts
\* the list the index holds, in place.
ThreadSort_SortsBucket ==
    /\ pc = "ready"
    /\ \E t \in Threads :
         LET th == threads[t] IN
         /\ th.pc = "line 75"
         /\ Step(t, [th EXCEPT !.pc = "line 76",
                               !.containing_nodes = SortByDepth(@)])
         /\ file_nodes' = Put(file_nodes, th.file_id, SortByDepth(file_nodes[th.file_id]))
    /\ UNCHANGED <<artifact, sources, errors, build_infos, pc, node_by_id, file_id_to_path,
                   added, before, query, codecVars>>

\* find_nodes_at_position, line 75: containing_nodes.sort(key=lambda x: -x.depth)
ThreadSort ==
    /\ pc = "ready"
    /\ \E t \in Threads :
         LET th == threads[t] IN
         /\ th.pc = "line 75"
         /\ Step(t, [th EXCEPT !.pc = "line 76",
                               !.containing_nodes = SortByDepth(@)])
    /\ UNCHANGED <<artifact, sources, errors, build_infos, pc, indexVars, codecVars>>

\* Line 76, and lines 82-83 and 367 for the callers: the list, or its first
\* element, or None.
ThreadReturn ==
    /\ pc = "ready"
    /\ \E t \in Threads :
         LET th == threads[t] IN
         /\ th.pc = "line 76"
         /\ Step(t, Return(th, Returned(
                        IF th.op = "find_nodes_at_position" THEN th.containing_nodes
                        ELSE IF th.containing_nodes # <<>> THEN th.containing_nodes[1]
                        ELSE None)))
    /\ UNCHANGED <<artifact, sources, errors, build_infos, pc, indexVars, codecVars>>

\* get_declaration_location, lines 376-395: the target entry looked up in
\* node_by_id.
ThreadTarget ==
    /\ pc = "ready"
    /\ \E t \in Threads :
         LET th     == threads[t]
             target == declaration_target(PI, th.args.node)
         IN  /\ th.pc = "line 376"
             /\ Step(t, IF target.st = "raised" THEN Return(th, target)
                        ELSE IF target.value = None THEN Return(th, Returned(None))
                        ELSE [th EXCEPT !.pc = "line 399", !.target_node = target.value])
    /\ UNCHANGED <<artifact, sources, errors, build_infos, pc, indexVars, codecVars>>

\* _node_to_location, lines 399-400: if node.file_id not in file_id_to_path
ThreadLocate ==
    /\ pc = "ready"
    /\ \E t \in Threads :
         LET th == threads[t] IN
         /\ th.pc = "line 399"
         /\ Step(t, IF ~HasPath(file_id_to_path, th.target_node.file_id)
                    THEN Return(th, Returned(None))
                    ELSE [th EXCEPT !.pc = "line 402"])
    /\ UNCHANGED <<artifact, sources, errors, build_infos, pc, indexVars, codecVars>>

\* _node_to_location, line 402: file_path = file_id_to_path[node.file_id]
ThreadLocatePath ==
    /\ pc = "ready"
    /\ \E t \in Threads :
         LET th == threads[t] IN
         /\ th.pc = "line 402"
         /\ Step(t, IF HasPath(file_id_to_path, th.target_node.file_id)
                    THEN [th EXCEPT !.pc = "line 405",
                                    !.file_path =
                                        PathOf(file_id_to_path, th.target_node.file_id)]
                    ELSE Return(th, Raised("KeyError")))
    /\ UNCHANGED <<artifact, sources, errors, build_infos, pc, indexVars, codecVars>>

\* _node_to_location, lines 405-406 and 411-412: open() and f.read() of
\* file_path, as the disk is when it answers; the thread waits for the disk with
\* file_path in hand while the others run.
ThreadLocateRead ==
    /\ pc = "ready"
    /\ \E t \in Threads, read \in ThreadReads :
         LET th == threads[t] IN
         /\ th.pc = "line 405"
         /\ Step(t, IF read.st = "ok"
                    THEN [th EXCEPT !.pc = "line 408", !.read = read]
                    ELSE Return([th EXCEPT !.read = read],
                                IF read.exc \in CaughtByNodeToLocation
                                THEN Returned(None) ELSE Raised(read.exc)))
    /\ UNCHANGED <<artifact, sources, errors, build_infos, pc, indexVars, codecVars>>

\* _node_to_location, lines 408-410: the position of the start byte in the
\* content read, and the uri of file_path.
ThreadLocation ==
    /\ pc = "ready"
    /\ \E t \in Threads :
         LET th  == threads[t]
             pos == byte_offset_to_lsp_position(th.read.text, th.target_node.start_byte)
         IN  /\ th.pc = "line 408"
             /\ Step(t, Return(th, Returned(Location(Scheme \o th.file_path,
                                                     pos[1], pos[2]))))
    /\ UNCHANGED <<artifact, sources, errors, build_infos, pc, indexVars, codecVars>>

\* The caller has the result; the thread is free for its next query.
ThreadDone ==
    /\ pc = "ready"
    /\ \E t \in Threads :
         /\ threads[t].pc = "done"
         /\ Step(t, IdleThread)
    /\ UNCHANGED <<artifact, sources, errors, build_infos, pc, indexVars, codecVars>>

ThreadsNext ==
    \/ Initialize
    \/ BuildPositionIndex
    \/ ThreadCall
    \/ ThreadMatch
    \/ ThreadPath
    \/ ThreadRead
    \/ ThreadOffset
    \/ ThreadCheck
    \/ ThreadScan
    \/ ThreadSort
    \/ ThreadReturn
    \/ ThreadTarget
    \/ ThreadLocate
    \/ ThreadLocatePath
    \/ ThreadLocateRead
    \/ ThreadLocation
    \/ ThreadDone

SpecThreads == ThreadsInit /\ [][ThreadsNext]_vars

(***************************************************************************)
(* Properties of the codec (SpecCodec)                                     *)
(***************************************************************************)

\* The byte offsets of a text that lie on a character boundary.
Boundaries(text) == {Utf8Len(SubSeq(text, 1, k)) : k \in 0..Len(text)}

\* C1: for every text and every byte offset b, 0 <= b <= byte length, on a
\* character boundary, byte_offset_to_lsp_position followed by
\* lsp_position_to_byte_offset on its result returns b.
C1_RoundTrip ==
    (codec.op = "o2p2o" /\ codec.offset \in Boundaries(content))
        => codec.back = codec.offset

\* A round trip of an offset right after a surrogate-pair character which another
\* character follows on the line, and one of an offset at a line terminator
\* after a multi-byte character.
C1_Witness ==
    /\ codec.op = "o2p2o"
    /\ codec.back = codec.offset
    /\ \/ \E k \in 1..(Len(content) - 1) :
            /\ content[k] = "u4" /\ content[k + 1] # NL
            /\ codec.offset = Utf8Len(SubSeq(content, 1, k))
            /\ codec.pos[2] >= 2
       \/ \E k \in 2..Len(content) :
            /\ content[k] = NL /\ content[k - 1] = "u3"
            /\ codec.offset = Utf8Len(SubSeq(content, 1, k - 1))

\* Sum over the lines of (UTF-8 byte length + 1).
RECURSIVE SumLineBytes(_)
SumLineBytes(ls) ==
    IF ls = <<>> THEN 0 ELSE Utf8Len(Head(ls)) + 1 + SumLineBytes(Tail(ls))

\* The length of the shortest prefix of the line whose UTF-16 length is >= column,
\* the whole line when there is none.
ShortestPrefix(line, column) ==
    LET reach == {k \in 0..Len(line) : Utf16Len(SubSeq(line, 1, k)) >= column}
    IN  IF reach = {} THEN Len(line)
        ELSE CHOOSE k \in reach : \A j \in reach : k <= j

\* C9: lsp_position_to_byte_offset(T, line, column): for a valid line index, the
\* sum over the preceding lines of (byte length + 1) plus the byte length of the
\* shortest prefix of the line with at least `column` UTF-16 units (the whole
\* line when the column exceeds it); for a line index at or past the number of
\* lines, the byte length of T; always between 0 and the byte length of T.
C9_Forward ==
    codec.op = "p2o" =>
        LET lines == Split(content, NL) IN
        /\ codec.line \in 0..(Len(lines) - 1) =>
              codec.offset =
                  SumLineBytes(SubSeq(lines, 1, codec.line))
                  + Utf8Len(SubSeq(lines[codec.line + 1], 1,
                                   ShortestPrefix(lines[codec.line + 1], codec.col)))
        /\ codec.line >= Len(lines) => codec.offset = Utf8Len(content)
        /\ 0 <= codec.offset /\ codec.offset <= Utf8Len(content)

\* A conversion on the second line, after a multi-byte first line, with a column
\* that falls inside a surrogate pair.
C9_Witness ==
    /\ codec.op = "p2o"
    /\ content = <<"u2", NL, "u4">>
    /\ codec.line = 1 /\ codec.col = 1
    /\ codec.offset = 7

(***************************************************************************)
(* Properties of the PositionIndex (Spec)                                  *)
(***************************************************************************)

\* The two lists hold the same entries, each as many times.
SameEntries(s1, s2) ==
    \A e \in Elems(s1) \cup Elems(s2) : Count(e, s1) = Count(e, s2)

Contains(e, o) == e.start_byte <= o /\ o < e.end_byte

\* The bucket of a file, empty for a file that has none.
Bucket(f) == IF f \in DOMAIN file_nodes THEN file_nodes[f] ELSE <<>>

\* C2: find_nodes_at_position(f, o) returns exactly the entries of file f with
\* start_byte <= o < end_byte, by non-increasing depth; find_innermost_node(f, o)
\* returns one of them of maximal depth, and None exactly when there is none.
C2_Lookup ==
    /\ query.op = "find_nodes_at_position" =>
          /\ SameEntries(query.result,
                         SelectSeq(Bucket(query.file_id),
                                   LAMBDA e : Contains(e, query.byte_offset)))
          /\ \A i \in 1..(Len(query.result) - 1) :
                query.result[i].depth >= query.result[i + 1].depth
    /\ query.op = "find_innermost_node" =>
          LET hits == {e \in Elems(Bucket(query.file_id)) : Contains(e, query.byte_offset)}
          IN  /\ query.result = None <=> hits = {}
              /\ query.result # None =>
                    /\ query.result \in hits
                    /\ \A e \in hits : e.depth <= query.result.depth

\* A lookup that finds entries of two depths and leaves another entry of the
\* file out, and an innermost lookup that returns the deeper of two.
C2_Witness ==
    \/ /\ query.op = "find_nodes_at_position"
       /\ Len(query.result) = 2
       /\ query.result[1].depth > query.result[2].depth
    \/ /\ query.op = "find_innermost_node"
       /\ query.result # None
       /\ \E e \in Elems(Bucket(query.file_id)) :
             Contains(e, query.byte_offset) /\ e.depth < query.result.depth

\* C7: after finalize_index every bucket is ordered by start_byte and, among
\* equal start_byte, by non-increasing depth; it holds the entries it held
\* before; and a second call right after leaves every bucket as it is.
C7_Finalize ==
    query.op = "finalize_index" =>
        /\ DOMAIN file_nodes = DOMAIN before
        /\ \A f \in DOMAIN file_nodes :
              /\ SameEntries(file_nodes[f], before[f])
              /\ \A i \in 1..(Len(file_nodes[f]) - 1) :
                    LET e1 == file_nodes[f][i]
                        e2 == file_nodes[f][i + 1]
                    IN  /\ e1.start_byte <= e2.start_byte
                        /\ e1.start_byte = e2.start_byte => e1.depth >= e2.depth
        /\ query.prev = "finalize_index" => file_nodes = before

\* A finalize_index that reordered a bucket.
C7_Witness ==
    /\ query.op = "finalize_index"
    /\ \E f \in DOMAIN file_nodes : Len(file_nodes[f]) >= 2 /\ file_nodes[f] # before[f]

\* The add_node calls so far with file id f / node id i, in call order.
AddedTo(f) == SelectSeq(added, LAMBDA e : e.file_id = f)
AddedAs(i) == SelectSeq(added, LAMBDA e : e.node_id = i)

\* C10: after any add_node calls, the bucket of f holds exactly the entries added
\* with file id f, one per call; node_by_id[i] is the entry last added with node
\* id i; every entry of node_by_id is in the bucket of its file id.
C10_AddNode ==
    /\ DOMAIN file_nodes = {e.file_id : e \in Elems(added)}
    /\ \A f \in DOMAIN file_nodes :
          /\ SameEntries(file_nodes[f], AddedTo(f))
          /\ Len(file_nodes[f]) = Len(AddedTo(f))
    /\ DOMAIN node_by_id = {e.node_id : e \in Elems(added)}
    /\ \A i \in DOMAIN node_by_id :
          /\ node_by_id[i] = AddedAs(i)[Len(AddedAs(i))]
          /\ node_by_id[i] \in Elems(Bucket(node_by_id[i].file_id))

\* Two entries added under one node id, to different files.
C10_Witness ==
    /\ Len(added) = 2
    /\ added[1].node_id = added[2].node_id
    /\ added[1].file_id # added[2].file_id
    /\ node_by_id[added[1].node_id] = added[2]

(***************************************************************************)
(* Properties of the Root (SpecRoot)                                       *)
(***************************************************************************)

\* The places of the "$<digits>" markers of a string.
Markers(s) == {i \in 1..(Len(s) - 1) : s[i] = "$" /\ s[i + 1] \in Digits}

\* The integer of the first marker.
FirstMarker(s) ==
    LET i == CHOOSE m \in Markers(s) : \A n \in Markers(s) : m <= n
        k == CHOOSE e \in (i + 1)..Len(s) :
                /\ \A j \in (i + 1)..e : s[j] \in Digits
                /\ e = Len(s) \/ s[e + 1] \notin Digits
    IN  DigitsVal(SubSeq(s, i + 1, k), 0)

\* The payload's type descriptor is absent or a string.
TypeDescriptorWellTyped(node_data) ==
    LET td == Get(node_data, "typeDescriptions")
    IN  \/ ~Has(node_data, "typeDescriptions")
        \/ IsDict(td) /\ (~Has(td, "typeIdentifier") \/ IsStr(Get(td, "typeIdentifier")))

\* The payload's type-descriptor string, <<>> when it has none.
TypeDescriptor(node_data) ==
    LET td == Get(node_data, "typeDescriptions")
    IN  IF Has(node_data, "typeDescriptions") /\ Has(td, "typeIdentifier")
        THEN Get(td, "typeIdentifier").s ELSE <<>>

\* C3: get_declaration_location selects the entry registered under the payload's
\* referencedDeclaration integer when that is a key of node_by_id; otherwise the
\* entry registered under the integer of the first "$<digits>" marker of the
\* type descriptor when that is a key of node_by_id; otherwise none.
C3_Target ==
    (query.op = "get_declaration_location"
        /\ TypeDescriptorWellTyped(query.node.node_data)) =>
        LET ref == Get(query.node.node_data, "referencedDeclaration")
            td  == TypeDescriptor(query.node.node_data)
        IN  query.target =
                Returned(IF IsInt(ref) /\ ref.i \in DOMAIN node_by_id
                         THEN node_by_id[ref.i]
                         ELSE IF Markers(td) # {} /\ FirstMarker(td) \in DOMAIN node_by_id
                         THEN node_by_id[FirstMarker(td)]
                         ELSE None)

\* C4: find_node_at_position and get_declaration_location never raise, whatever
\* the read of the source file does; a uri that matches no path, a missing file
\* and an unreadable file yield None.
C4_NeverRaises ==
    query.op \in {"find_node_at_position", "get_declaration_location"} =>
        /\ query.result.st = "returned"
        /\ (query.op = "find_node_at_position"
              /\ (MatchPath(file_id_to_path, query.file_uri, 1) = 0 \/ query.read.st # "ok"))
           => query.result.value = None
        /\ (query.op = "get_declaration_location" /\ query.read.st # "ok")
           => query.result.value = None

\* C5: every entry the indexer adds has start_byte <= end_byte and
\* end_byte = start_byte + length, start and length being the first two
\* integers of the node's src.
C5_EntryRange ==
    pc = "ready" =>
        \A e \in IndexedNodes :
            LET src_info == parse_src(Get(e.node_data, "src").s) IN
            /\ e.start_byte = src_info.v[1]
            /\ e.end_byte = e.start_byte + src_info.v[2]
            /\ e.start_byte <= e.end_byte

\* The records of the artifact with every required subfield.
CompleteFile(file) ==
    /\ Truthy(Get(file, "version")) /\ Truthy(Get(file, "build_id"))
    /\ Truthy(Get(file, "profile"))
    /\ LET s == Get(file, "source_file") IN
       IsDict(s) /\ IsInt(Get(s, "id")) /\ Truthy(Get(s, "ast"))

ArtifactFiles(filename) == Get(Get(artifact, "sources"), filename).l

\* C6: after _initialize every element of sources[filename] is a File with a
\* SourceFile and its three strings, every element of errors and build_infos is
\* fully populated, and a record that lacks a required subfield has no element.
C6_Inclusion ==
    pc # "new" =>
        /\ \A i \in 1..Len(sources) :
              /\ \A j \in 1..Len(sources[i][2]) :
                    LET f == sources[i][2][j] IN
                    /\ f # None
                    /\ f.source_file.t = "SourceFile"
                    /\ Truthy(f.verison) /\ Truthy(f.build_id) /\ Truthy(f.profile)
              /\ Len(sources[i][2]) =
                    Len(SelectSeq(ArtifactFiles(sources[i][1]), CompleteFile))
        /\ \A i \in 1..Len(errors) :
              /\ errors[i].source_location # None /\ errors[i].error_type # None
              /\ errors[i].error_code # None /\ errors[i].severity # None
              /\ errors[i].message # None
        /\ \A i \in 1..Len(build_infos) :
              /\ build_infos[i].id # None /\ build_infos[i].source_id_to_path # None
              /\ build_infos[i].language # None

\* What the query of a thread returns when it runs alone on the index: the
\* operation applied in one piece to its arguments and to what the disk gave it.
Alone(th) ==
    CASE th.op = "find_nodes_at_position" ->
            Returned(find_nodes_at_position(PI, th.args.file_id, th.args.byte_offset))
      [] th.op = "find_innermost_node" ->
            Returned(find_innermost_node(PI, th.args.file_id, th.args.byte_offset))
      [] th.op = "find_node_at_position" ->
            find_node_at_position(PI, th.args.file_uri, th.args.line, th.args.character,
                                  th.read)
      [] th.op = "get_declaration_location" ->
            get_declaration_location(PI, th.args.node, th.read)

\* C8: after construction, every step of a thread in find_nodes_at_position,
\* find_innermost_node, find_node_at_position or get_declaration_location leaves
\* file_nodes (the order of every bucket included), node_by_id, file_id_to_path
\* and so every stored entry as they are, and however the steps of the threads
\* interleave, the query of each thread returns what it returns running alone.
C8_ReadOnly ==
    /\ [](pc = "ready" =>
            \A t \in Threads : threads[t].pc = "done" => threads[t].result = Alone(threads[t]))
    /\ [][pc = "ready" =>
            /\ file_nodes' = file_nodes
            /\ node_by_id' = node_by_id
            /\ file_id_to_path' = file_id_to_path]_vars

\* Two queries that ran interleaved and have returned: a lookup by position
\* that took its path from the index, waited for the disk and then returned an
\* entry, and a lookup of all entries at an offset that ran from call to return
\* during that wait and returned the six entries of a bucket deepest first,
\* where the bucket holds a deeper entry after a shallower one.
C8_Witness ==
    /\ pc = "ready"
    /\ \A t \in Threads : threads[t].pc = "done"
    /\ threads[1].op = "find_nodes_at_position"
    /\ Len(threads[1].result.value) = 6
    /\ threads[1].result.value # file_nodes[threads[1].args.file_id]
    /\ threads[2].op = "find_node_at_position"
    /\ threads[2].overlapped
    /\ threads[2].result.st = "returned"
    /\ threads[2].result.value # None

\* The objects nested anywhere in an object, the object itself included: each
\* with the object it is a value (or an element of a list value) of, and the
\* number of objects above it.
RECURSIVE Nested(_, _, _)
Nested(node, parent, above) ==
    {[node |-> node, parent |-> parent, above |-> above]}
    \cup UNION {LET value == node.d[i][2] IN
                IF IsDict(value) THEN Nested(value, node, above + 1)
                ELSE IF IsList(value)
                THEN UNION {Nested(value.l[j], node, above + 1) :
                              j \in {k \in 1..Len(value.l) : IsDict(value.l[k])}}
                ELSE {} : i \in 1..Len(node.d)}

\* The ASTs line 282 passes to _index_ast_nodes over the slots: those of the
\* Files before the first slot that raises.
RECURSIVE VisitedAsts(_, _)
VisitedAsts(files, i) ==
    IF i > Len(files) THEN {}
    ELSE LET file == files[i] IN
         IF Truthy(file) /\ Truthy(file.source_file)
         THEN IF file.source_file.t = "SourceFile"
              THEN {file.source_file.ast} \cup VisitedAsts(files, i + 1)
              ELSE {}
         ELSE VisitedAsts(files, i + 1)

\* The ASTs of the loaded compiled files that the constructor indexed: none
\* before line 279 is reached.
LoadedAsts ==
    IF \/ pc = "ready"
       \/ pc = "raised" /\ BuildPaths(<<>>, build_infos, 1).st = "ok"
    THEN VisitedAsts(AllFiles(sources, 1), 1)
    ELSE {}

\* An object that carries a nodeType, an id and a well-formed src.
Tagged(node) ==
    /\ Has(node, "nodeType")
    /\ Has(node, "id") /\ IsInt(Get(node, "id"))
    /\ Has(node, "src") /\ IsStr(Get(node, "src"))
    /\ Truthy(parse_src(Get(node, "src").s))

\* The object has an entry in node_by_id and in the bucket of its src file id.
HasEntry(node) ==
    /\ Get(node, "id").i \in DOMAIN node_by_id
    /\ LET f == parse_src(Get(node, "src").s).v[3] IN
       /\ f \in DOMAIN file_nodes
       /\ \E e \in Elems(file_nodes[f]) : e.node_data = node

\* C11: after construction, for every loaded file, every object nested in its
\* AST that carries a nodeType, an id and a well-formed src, and is the AST
\* itself or a value (or an element of a list value) of a key of an object that
\* has an entry, has an entry in node_by_id and in the bucket of its src file
\* id: so has a Block stored under "body" or "parameters", and so have the
\* objects nested in it.
C11_Completeness ==
    pc = "ready" =>
        \A ast \in LoadedAsts :
            \A r \in Nested(ast, None, 0) :
                (/\ Tagged(r.node)
                 /\ \/ r.parent = None
                    \/ Tagged(r.parent) /\ HasEntry(r.parent))
                    => HasEntry(r.node)

\* C12: after construction, and also when construction raised in the index
\* build and left the entries of the files it had visited, every entry has a depth that is at least 0 and is
\* the number of objects above its node in the AST, which is the number of
\* recursion steps from the AST to the node, whether or not the objects above
\* it have an entry; and the entry of an object nested in the node of another
\* entry has a strictly greater depth than that entry.
C12_Depth ==
    pc \in {"ready", "raised"} =>
        LET placed == UNION {Nested(ast, None, 0) : ast \in LoadedAsts} IN
        /\ \A e \in IndexedNodes :
              /\ e.depth >= 0
              /\ \E r \in placed : r.node = e.node_data
              /\ \A r \in placed : r.node = e.node_data => r.above = e.depth
        /\ \A e1 \in IndexedNodes, e2 \in IndexedNodes :
              (\E r \in Nested(e1.node_data, None, 0) :
                    r.node = e2.node_data /\ r.above > 0)
                  => e2.depth > e1.depth

\* A constructed Root whose index holds the Identifier, four recursion steps
\* below the AST (a list element, a value of a key that is in neither list, a
\* list element, a single child), under a function of malformed src that has no
\* entry, and the Block between them at depth 2.
C12_Witness ==
    /\ pc = "ready"
    /\ \E e \in IndexedNodes : e.node_data = Identifier /\ e.depth = 4
    /\ \E e \in IndexedNodes : e.node_data = Block /\ e.depth = 2
    /\ \E ast \in LoadedAsts :
          \E r \in Nested(ast, None, 0) :
              /\ r.above = 1 /\ Has(r.node, "returnParameters")
              /\ IsDict(Get(r.node, "returnParameters"))
              /\ \A e \in IndexedNodes : e.node_data # r.node

====
